---- MODULE Spec2Model ----
(***************************************************************************)
(* Model of the stock-tool portfolio store: the SQLite table `tickers`,    *)
(* the repository operations on it, the PortfolioService wrappers, and the *)
(* REST routes and MCP tools that call them.                               *)
(*                                                                         *)
(* Python values are modelled as follows.  Optional[x] is a sequence of    *)
(* length 0 (None) or 1.  A float quantity is a small integer.  A          *)
(* timestamp is a whole number of seconds; the wall clock runs in ticks of *)
(* 1/TicksPerSecond second and CURRENT_TIMESTAMP truncates it to seconds.  *)
(***************************************************************************)
EXTENDS Integers, Sequences, FiniteSets, TLC

\* ---------------------------------------------------------------- bounds
MaxClock == 2
TicksPerSecond == 2
MaxSeq == 3
MaxBatch == 2

\* ---------------------------------------------------------------- inputs
Symbols == {"AAPL", "aapl"}
Quantities == {-2, 5}

None == << >>
Some(x) == << x >>

\* float('nan'): a quantity pydantic accepts and that is no number; here a
\* value outside Quantities.
NaN == 99

\* A timestamp a client may put in a request: one that no reading of the
\* server clock gives.
ClientTimestamps == {MaxClock + 1}

\* JSON elements a client may POST: symbol or quantity may be absent, the
\* optional timestamps may be present.
PayloadElements ==
    [symbol : {Some(s) : s \in Symbols}, quantity : {Some(q) : q \in Quantities},
     createad_at : {None}, updated_at : {None}]
    \cup {[symbol |-> Some("AAPL"), quantity |-> None,
           createad_at |-> None, updated_at |-> None],
          [symbol |-> None, quantity |-> Some(5),
           createad_at |-> None, updated_at |-> None]}
    \cup [symbol : {Some("AAPL")}, quantity : {Some(5)},
          createad_at : {Some(t) : t \in ClientTimestamps},
          updated_at : {Some(t) : t \in ClientTimestamps}]
    \cup {[symbol |-> Some("aapl"), quantity |-> Some(NaN),
           createad_at |-> None, updated_at |-> None]}

RECURSIVE SeqsUpTo(_, _)
SeqsUpTo(S, n) ==
    IF n = 0 THEN {<< >>}
    ELSE LET shorter == SeqsUpTo(S, n - 1)
         IN  shorter \cup {Append(p, e) : p \in {q \in shorter : Len(q) = n - 1}, e \in S}

Payloads == SeqsUpTo(PayloadElements, MaxBatch)

VARIABLES
    tickers,          \* rows of table `tickers`
    sqlite_sequence,  \* last rowid handed out by AUTOINCREMENT
    clock,            \* wall clock, in ticks
    live,             \* history: symbols upserted and not deleted since
    resp,             \* the last request and its response
    conc,             \* concurrent callers: connections, their transactions
    scorer,           \* the last TickerSummary derivation and its inputs
    listing,          \* the last listing-summary request and its response
    extraction,       \* the last call into the extraction service
    indices           \* the last index-listing request and its response

vars == << tickers, sqlite_sequence, clock, live, resp, conc, scorer, listing,
          extraction, indices >>

\* What a specification that runs one component leaves alone.
Idle == [op |-> "idle"]
others == << conc, scorer, listing, extraction, indices >>

\* ------------------------------------------------------------ the schema
\* CURRENT_TIMESTAMP: 'YYYY-MM-DD HH:MM:SS', i.e. whole seconds.
CURRENT_TIMESTAMP(t) == t \div TicksPerSecond

\* symbol TEXT UNIQUE, default collation BINARY; `WHERE symbol = ?`.
SymbolEqNoCase(a, b) ==
    LET fold(s) == IF s = "aapl" THEN "AAPL" ELSE s
    IN  fold(a) = fold(b)

SymbolEq(a, b) == a = b

\* ------------------------------------------------------------ the models
\* Ticker(symbol: str, quantity: float, createad_at=None, updated_at=None)
\* built from a request element; fails validation when a required field
\* is absent.
TickerValid(e) == e.symbol # None /\ e.quantity # None

TickerFromPayload(e) ==
    [symbol |-> e.symbol[1], quantity |-> e.quantity[1],
     createad_at |-> e.createad_at, updated_at |-> e.updated_at]

\* The body of POST /portfolio/tickers parsed as List[Ticker]: all elements
\* or a validation error.
ValidateBodySkipInvalid(payload) ==
    LET good == SelectSeq(payload, TickerValid)
    IN  [ok |-> TRUE, batch |-> [i \in 1..Len(good) |-> TickerFromPayload(good[i])]]

ValidateBody(payload) ==
    IF \A i \in 1..Len(payload) : TickerValid(payload[i])
    THEN [ok |-> TRUE, batch |-> [i \in 1..Len(payload) |-> TickerFromPayload(payload[i])]]
    ELSE [ok |-> FALSE, batch |-> << >>]

\* Ticker(**dict(row)): keys that are not fields of Ticker (id, created_at)
\* are ignored, fields without a key keep their default.
TickerFromRow(row) ==
    [symbol |-> row.symbol, quantity |-> row.quantity,
     createad_at |-> None, updated_at |-> Some(row.updated_at)]

\* --------------------------------------------------------- the repository
\* INSERT ... ON CONFLICT(symbol) DO UPDATE, executed at clock reading t.
UpsertAlwaysInsert(rows, seq, ticker, t) ==
    [rows |-> rows \cup {[id |-> seq + 1, symbol |-> ticker.symbol,
                          quantity |-> ticker.quantity,
                          created_at |-> CURRENT_TIMESTAMP(t),
                          updated_at |-> CURRENT_TIMESTAMP(t)]},
     seq |-> seq + 1]

UpsertReplace(rows, seq, ticker, t) ==
    [rows |-> {r \in rows : ~SymbolEq(r.symbol, ticker.symbol)}
              \cup {[id |-> seq + 1, symbol |-> ticker.symbol,
                     quantity |-> ticker.quantity,
                     created_at |-> CURRENT_TIMESTAMP(t),
                     updated_at |-> CURRENT_TIMESTAMP(t)]},
     seq |-> seq + 1]

UpsertNoRefresh(rows, seq, ticker, t) ==
    IF \E r \in rows : SymbolEq(r.symbol, ticker.symbol)
    THEN [rows |-> {IF SymbolEq(r.symbol, ticker.symbol)
                    THEN [r EXCEPT !.quantity = ticker.quantity]
                    ELSE r : r \in rows},
          seq |-> seq + 1]
    ELSE UpsertAlwaysInsert(rows, seq, ticker, t)

\* A client-supplied timestamp, when present, is stored.
UpsertClientTimestamps(rows, seq, ticker, t) ==
    LET created == IF ticker.createad_at = None THEN CURRENT_TIMESTAMP(t)
                   ELSE ticker.createad_at[1]
        updated == IF ticker.updated_at = None THEN CURRENT_TIMESTAMP(t)
                   ELSE ticker.updated_at[1]
    IN  IF \E r \in rows : SymbolEq(r.symbol, ticker.symbol)
        THEN [rows |-> {IF SymbolEq(r.symbol, ticker.symbol)
                        THEN [r EXCEPT !.quantity = ticker.quantity,
                                       !.updated_at = updated]
                        ELSE r : r \in rows},
              seq |-> seq + 1]
        ELSE [rows |-> rows \cup {[id |-> seq + 1, symbol |-> ticker.symbol,
                                   quantity |-> ticker.quantity,
                                   created_at |-> created, updated_at |-> updated]},
              seq |-> seq + 1]

\* The rowid of the new row is taken from sqlite_sequence before the
\* conflict is found, and sqlite_sequence keeps it: an upsert of a stored
\* symbol uses up a rowid too.
Upsert(rows, seq, ticker, t) ==
    IF \E r \in rows : SymbolEq(r.symbol, ticker.symbol)
    THEN [rows |-> {IF SymbolEq(r.symbol, ticker.symbol)
                    THEN [r EXCEPT !.quantity = ticker.quantity,
                                   !.updated_at = CURRENT_TIMESTAMP(t)]
                    ELSE r : r \in rows},
          seq |-> seq + 1]
    ELSE [rows |-> rows \cup {[id |-> seq + 1, symbol |-> ticker.symbol,
                               quantity |-> ticker.quantity,
                               created_at |-> CURRENT_TIMESTAMP(t),
                               updated_at |-> CURRENT_TIMESTAMP(t)]},
          seq |-> seq + 1]

\* _init_db: CREATE TABLE IF NOT EXISTS, on a file that holds the table
\* already, changes nothing.
init_db_recreate(rows, seq) == [rows |-> {}, seq |-> 0]

init_db(rows, seq) == [rows |-> rows, seq |-> seq]

\* The loop of save_tracked_tickers: element i executes at clock reading
\* times[i]; the connection commits when the `with` block ends.
\* Binding the parameters of the INSERT: sqlite3 binds a NaN as NULL, and
\* quantity is REAL NOT NULL, so the statement fails.
NotNullFails(ticker) == ticker.quantity = NaN

\* The statements run so far stay in the connection's open transaction;
\* a failing statement ends the loop with its exception.
RECURSIVE save_tracked_tickers(_, _, _, _)
save_tracked_tickers(rows, seq, batch, times) ==
    IF batch = << >> THEN [rows |-> rows, seq |-> seq, exc |-> "none"]
    ELSE IF NotNullFails(Head(batch))
    THEN [rows |-> rows, seq |-> seq, exc |-> "IntegrityError"]
    ELSE LET one == Upsert(rows, seq, Head(batch), Head(times))
         IN  save_tracked_tickers(one.rows, one.seq, Tail(batch), Tail(times))

\* "with sqlite3.connect(...) as conn": the block's exit commits the
\* transaction when the block ended normally and rolls it back when an
\* exception left it.
with_connection_commit_always(rows, seq, done) == done

with_connection(rows, seq, done) ==
    IF done.exc = "none" THEN done
    ELSE [rows |-> rows, seq |-> seq, exc |-> done.exc]

\* SELECT * FROM tickers: a table scan, in rowid order.
RECURSIVE RowidOrder(_)
RowidOrder(rows) ==
    IF rows = {} THEN << >>
    ELSE LET first == CHOOSE r \in rows : \A o \in rows : r.id <= o.id
         IN  << first >> \o RowidOrder(rows \ {first})

get_tracked_tickers_fetchone(rows) ==
    LET scan == RowidOrder(rows)
    IN  [i \in 1..(IF scan = << >> THEN 0 ELSE 1) |-> TickerFromRow(scan[i])]

get_tracked_tickers(rows) ==
    LET scan == RowidOrder(rows)
    IN  [i \in 1..Len(scan) |-> TickerFromRow(scan[i])]

get_tracked_ticker_by_symbol(rows, symbol) ==
    LET found == {r \in rows : SymbolEq(r.symbol, symbol)}
    IN  IF found # {}
        THEN [exc |-> "none", ret |-> << TickerFromRow(CHOOSE r \in found : TRUE) >>]
        ELSE [exc |-> "ValueError", ret |-> << >>]

delete_without_where(rows, symbol) ==
    IF rows = {}
    THEN [rows |-> rows, exc |-> "ValueError", ret |-> "None"]
    ELSE [rows |-> {}, exc |-> "none", ret |-> "True"]

delete_without_rowcount_check(rows, symbol) ==
    [rows |-> {r \in rows : ~SymbolEq(r.symbol, symbol)}, exc |-> "none", ret |-> "True"]

delete_tracked_ticker_by_symbol(rows, symbol) ==
    LET found == {r \in rows : SymbolEq(r.symbol, symbol)}
    IN  IF found = {}
        THEN [rows |-> rows, exc |-> "ValueError", ret |-> "None"]
        ELSE [rows |-> rows \ found, exc |-> "none", ret |-> "True"]

\* ------------------------------------------------------------ the service
\* PortfolioService.remove_ticker calls the repository and returns nothing.
remove_ticker(rows, symbol) ==
    LET r == delete_tracked_ticker_by_symbol(rows, symbol)
    IN  [rows |-> r.rows, exc |-> r.exc, ret |-> "None"]

\* What FastAPI serialises a handler's return value to.
JsonOf(ret) ==
    CASE ret = "None" -> "null"
      [] ret = "True" -> "true"
      [] ret = "Ticker" -> "object"
      [] ret = "list" -> "array"

\* ------------------------------------------------------------- the state
Request(iface, op, symbol, payload) ==
    [iface |-> iface, op |-> op, symbol |-> symbol, payload |-> payload]

Response(req, status, exc, json, result, repo_called, at) ==
    [iface |-> req.iface, op |-> req.op, symbol |-> req.symbol,
     payload |-> req.payload, status |-> status, exc |-> exc, json |-> json,
     result |-> result, repo_called |-> repo_called, at |-> at,
     before |-> tickers]

\* SQLitePortfolioRepository.__init__ on a new file: CREATE TABLE IF NOT
\* EXISTS leaves an empty table.
Init ==
    /\ tickers = {}
    /\ sqlite_sequence = 0
    /\ clock = 0
    /\ live = {}
    /\ resp = [iface |-> "none", op |-> "init", symbol |-> "", payload |-> << >>,
               status |-> 0, exc |-> "none", json |-> "null", result |-> << >>,
               repo_called |-> FALSE, at |-> 0, before |-> {}]
    /\ conc = Idle
    /\ scorer = Idle
    /\ listing = Idle
    /\ extraction = Idle
    /\ indices = Idle

\* Clock readings of the n statements of one batch: the first at the
\* current reading, each other at or after the previous one.
Times(n) ==
    {ts \in [1..n -> clock..MaxClock] :
        /\ n > 0 => ts[1] = clock
        /\ \A i \in 1..n - 1 : ts[i] <= ts[i + 1]}

Tick ==
    /\ clock < MaxClock
    /\ clock' = clock + 1
    /\ UNCHANGED << tickers, sqlite_sequence, live, resp, others >>

\* The write shared by POST /portfolio/tickers and add_tracked_ticker.
Save(req, batch, times) ==
    LET ran == save_tracked_tickers(tickers, sqlite_sequence, batch, times)
        done == with_connection(tickers, sqlite_sequence, ran)
    IN  /\ ran.seq <= MaxSeq
        /\ tickers' = done.rows
        /\ sqlite_sequence' = done.seq
        /\ clock' = IF batch = << >> THEN clock ELSE times[Len(times)]
        /\ live' = IF done.exc = "none"
                   THEN live \cup {batch[i].symbol : i \in 1..Len(batch)}
                   ELSE live
        /\ resp' = Response(req,
                            IF req.iface = "mcp" THEN 0
                            ELSE IF done.exc = "none" THEN 200 ELSE 500,
                            done.exc,
                            IF done.exc = "none" THEN JsonOf("None") ELSE "error",
                            << >>, TRUE,
                            IF batch = << >> THEN clock ELSE times[Len(times)])
        /\ UNCHANGED others

\* -------------------------------------------------------- the REST routes
\* GET /portfolio/tickers
RestGetTrackedTickers ==
    /\ resp' = Response(Request("rest", "get_all", "", << >>), 200, "none",
                        JsonOf("list"), get_tracked_tickers(tickers), TRUE, clock)
    /\ UNCHANGED << tickers, sqlite_sequence, clock, live, others >>

\* GET /portfolio/tickers/{symbol}
RestGetTrackedTicker(symbol) ==
    LET r == get_tracked_ticker_by_symbol(tickers, symbol)
        req == Request("rest", "get", symbol, << >>)
    IN  /\ resp' = IF r.exc = "ValueError"
                   THEN Response(req, 404, r.exc, "error", << >>, TRUE, clock)
                   ELSE Response(req, 200, r.exc, JsonOf("Ticker"), r.ret, TRUE, clock)
        /\ UNCHANGED << tickers, sqlite_sequence, clock, live, others >>

\* POST /portfolio/tickers: the body is validated as List[Ticker] before
\* the handler runs.
RestSaveTrackedTickers(payload) ==
    LET req == Request("rest", "save", "", payload)
        body == ValidateBody(payload)
    IN  IF ~body.ok
        THEN /\ resp' = Response(req, 422, "RequestValidationError", "error", << >>, FALSE, clock)
             /\ UNCHANGED << tickers, sqlite_sequence, clock, live, others >>
        ELSE \E times \in Times(Len(body.batch)) : Save(req, body.batch, times)

\* DELETE /portfolio/tickers/{symbol}
RestDeleteTrackedTicker(symbol) ==
    LET r == remove_ticker(tickers, symbol)
        req == Request("rest", "delete", symbol, << >>)
    IN  /\ tickers' = r.rows
        /\ live' = IF r.exc = "none" THEN live \ {symbol} ELSE live
        /\ resp' = IF r.exc = "ValueError"
                   THEN Response(req, 404, r.exc, "error", << >>, TRUE, clock)
                   ELSE Response(req, 200, r.exc, JsonOf(r.ret), << >>, TRUE, clock)
        /\ UNCHANGED << sqlite_sequence, clock, others >>

\* ---------------------------------------------------------- the MCP tools
McpGetTrackedTickers ==
    /\ resp' = Response(Request("mcp", "get_all", "", << >>), 0, "none",
                        JsonOf("list"), get_tracked_tickers(tickers), TRUE, clock)
    /\ UNCHANGED << tickers, sqlite_sequence, clock, live, others >>

McpGetTrackedTicker(symbol) ==
    LET r == get_tracked_ticker_by_symbol(tickers, symbol)
        req == Request("mcp", "get", symbol, << >>)
    IN  /\ resp' = IF r.exc = "ValueError"
                   THEN Response(req, 0, r.exc, "error", << >>, TRUE, clock)
                   ELSE Response(req, 0, r.exc, JsonOf("Ticker"), r.ret, TRUE, clock)
        /\ UNCHANGED << tickers, sqlite_sequence, clock, live, others >>

\* add_tracked_ticker -> PortfolioService.add_ticker
McpAddTrackedTicker(symbol, quantity) ==
    LET payload == << [symbol |-> Some(symbol), quantity |-> Some(quantity),
                       createad_at |-> None, updated_at |-> None] >>
    IN  \E times \in Times(1) :
            Save(Request("mcp", "save", "", payload),
                 << TickerFromPayload(payload[1]) >>, times)

\* remove_tracked_ticker -> PortfolioService.remove_ticker
McpRemoveTrackedTicker(symbol) ==
    LET r == remove_ticker(tickers, symbol)
        req == Request("mcp", "delete", symbol, << >>)
    IN  /\ tickers' = r.rows
        /\ live' = IF r.exc = "none" THEN live \ {symbol} ELSE live
        /\ resp' = IF r.exc = "ValueError"
                   THEN Response(req, 0, r.exc, "error", << >>, TRUE, clock)
                   ELSE Response(req, 0, r.exc, JsonOf(r.ret), << >>, TRUE, clock)
        /\ UNCHANGED << sqlite_sequence, clock, others >>

\* A process restart: the services build a new SQLitePortfolioRepository
\* on the file the old one wrote.
Restart ==
    LET db == init_db(tickers, sqlite_sequence)
    IN  /\ tickers' = db.rows
        /\ sqlite_sequence' = db.seq
        /\ resp' = Response(Request("none", "restart", "", << >>), 0, "none",
                            "null", << >>, TRUE, clock)
        /\ UNCHANGED << clock, live, others >>

Next ==
    \/ Tick
    \/ Restart
    \/ RestGetTrackedTickers
    \/ \E s \in Symbols : RestGetTrackedTicker(s)
    \/ \E p \in Payloads : RestSaveTrackedTickers(p)
    \/ \E s \in Symbols : RestDeleteTrackedTicker(s)
    \/ McpGetTrackedTickers
    \/ \E s \in Symbols : McpGetTrackedTicker(s)
    \/ \E s \in Symbols, q \in Quantities : McpAddTrackedTicker(s, q)
    \/ \E s \in Symbols : McpRemoveTrackedTicker(s)

Spec == Init /\ [][Next]_vars

TypeOK ==
    /\ sqlite_sequence \in 0..MaxSeq
    /\ clock \in 0..MaxClock
    /\ live \subseteq Symbols
    /\ \A r \in tickers : r.id \in 1..sqlite_sequence /\ r.symbol \in Symbols

\* ================================================================ claims
SymbolsOf(rows) == {r.symbol : r \in rows}

PayloadSymbols(payload) ==
    {payload[i].symbol[1] : i \in {j \in 1..Len(payload) : payload[j].symbol # None}}

SaveDone == resp.op = "save" /\ resp.exc = "none"

\* C1: after any sequence of upserts (also batches repeating a symbol) and
\* deletes, the table holds at most one row per symbol.
C1_AtMostOneRecordPerSymbol ==
    \A r1 \in tickers : \A r2 \in tickers : r1.symbol = r2.symbol => r1 = r2

\* A batch repeating one symbol with two quantities was stored, after an
\* earlier row had been deleted.
C1_Witness ==
    /\ SaveDone
    /\ Len(resp.payload) = 2
    /\ resp.payload[1].symbol = resp.payload[2].symbol
    /\ resp.payload[1].quantity # resp.payload[2].quantity
    /\ tickers # {}
    /\ \A r \in tickers : r.id # 1

\* C2: upserting a symbol that is already stored leaves exactly one row
\* for it, carrying the quantity of the latest upsert and the created_at
\* the row had before.
C2_ReupsertOverwritesQuantityKeepsCreatedAt ==
    SaveDone =>
        \A old \in resp.before : \A i \in 1..Len(resp.payload) :
            resp.payload[i].symbol = Some(old.symbol) =>
                LET now == {r \in tickers : r.symbol = old.symbol}
                IN  /\ Cardinality(now) = 1
                    /\ \A r \in now :
                        /\ r.created_at = old.created_at
                        /\ (\A j \in i + 1..Len(resp.payload) :
                                resp.payload[j].symbol # Some(old.symbol))
                           => r.quantity = resp.payload[i].quantity[1]

\* A stored symbol was upserted again with another quantity, in a later
\* clock second than the one it was created in.
C2_Witness ==
    /\ SaveDone
    /\ \E old \in resp.before : \E r \in tickers :
        /\ r.symbol = old.symbol
        /\ old.symbol \in PayloadSymbols(resp.payload)
        /\ r.quantity # old.quantity
        /\ r.updated_at > old.created_at

\* C3 as stated: a second upsert of a symbol always leaves updated_at
\* strictly greater than the first upsert left it.
C3_UpdatedAtStrictlyIncreases ==
    SaveDone =>
        \A old \in resp.before : \A r \in tickers :
            (r.symbol = old.symbol /\ old.symbol \in PayloadSymbols(resp.payload))
            => r.updated_at > old.updated_at

\* C3 amended: a second upsert of a symbol leaves updated_at at the clock's
\* whole-second reading of that upsert, which is never less than the
\* updated_at the first upsert left (and equal to it within one second).
C3_UpdatedAtIsSecondOfLastUpsert ==
    SaveDone =>
        \A old \in resp.before : \A r \in tickers :
            (r.symbol = old.symbol /\ old.symbol \in PayloadSymbols(resp.payload))
            => /\ r.updated_at >= old.updated_at
               /\ r.updated_at <= resp.at \div TicksPerSecond
               /\ resp.payload[Len(resp.payload)].symbol = Some(old.symbol)
                  => r.updated_at = resp.at \div TicksPerSecond

\* A stored symbol was upserted again with another quantity within the same
\* clock second: updated_at did not move.
C3_Witness ==
    /\ SaveDone
    /\ \E old \in resp.before : \E r \in tickers :
        /\ r.symbol = old.symbol
        /\ old.symbol \in PayloadSymbols(resp.payload)
        /\ r.quantity # old.quantity
        /\ r.updated_at = old.updated_at

\* C4 as stated: the record returned for a stored symbol carries its
\* symbol, its quantity, a creation timestamp and an update timestamp, the
\* first not later than the second.
C4_GetReturnsBothTimestamps ==
    (resp.op = "get" /\ resp.exc = "none") =>
        LET t == resp.result[1]
        IN  /\ t.symbol = resp.symbol
            /\ \E r \in resp.before : r.symbol = resp.symbol /\ r.quantity = t.quantity
            /\ t.updated_at # None
            /\ t.createad_at # None
            /\ t.createad_at[1] <= t.updated_at[1]

\* C5: a lookup fails with not-found (404 on the REST route) exactly when
\* no stored row has the very same symbol, case included; otherwise it
\* returns that row's data; either way the table is as before.
C5_GetNotFoundExactlyWhenAbsent ==
    resp.op = "get" =>
        LET match == {r \in resp.before : r.symbol = resp.symbol}
        IN  /\ (resp.exc = "ValueError") <=> (match = {})
            /\ resp.exc \in {"ValueError", "none"}
            /\ resp.iface = "rest" =>
                   resp.status = (IF match = {} THEN 404 ELSE 200)
            /\ match # {} =>
                   /\ Len(resp.result) = 1
                   /\ \E r \in match :
                       /\ resp.result[1].symbol = r.symbol
                       /\ resp.result[1].quantity = r.quantity
                       /\ resp.result[1].updated_at = Some(r.updated_at)
            /\ tickers = resp.before

\* A lookup of "aapl" failed while "AAPL" is stored.
C5_Witness ==
    /\ resp.op = "get"
    /\ resp.status = 404
    /\ resp.symbol = "aapl"
    /\ "AAPL" \in SymbolsOf(tickers)

\* C6: deleting a symbol that is not stored fails with not-found (404 on
\* the REST route) and leaves the table, hence the listing, as it was.
C6_DeleteAbsentFailsAndChangesNothing ==
    (resp.op = "delete" /\ resp.symbol \notin SymbolsOf(resp.before)) =>
        /\ resp.exc = "ValueError"
        /\ resp.iface = "rest" => resp.status = 404
        /\ tickers = resp.before
        /\ get_tracked_tickers(tickers) = get_tracked_tickers(resp.before)

\* A delete of an absent symbol was answered while another one is stored.
C6_Witness ==
    /\ resp.op = "delete"
    /\ resp.status = 404
    /\ tickers # {}

\* C7: deleting a stored symbol removes its row and no other; a lookup of
\* the symbol then fails with not-found.
C7_DeleteRemovesExactlyThatRecord ==
    (resp.op = "delete" /\ resp.symbol \in SymbolsOf(resp.before)) =>
        /\ resp.exc = "none"
        /\ tickers = {r \in resp.before : r.symbol # resp.symbol}
        /\ Cardinality(tickers) = Cardinality(resp.before) - 1
        /\ get_tracked_ticker_by_symbol(tickers, resp.symbol).exc = "ValueError"

\* A stored symbol was deleted while another one stays stored.
C7_Witness ==
    /\ resp.op = "delete"
    /\ resp.exc = "none"
    /\ resp.symbol \in SymbolsOf(resp.before)
    /\ tickers # {}

\* C8 as stated: a successful DELETE /portfolio/tickers/{symbol} answers
\* with the body true.
C8_DeleteAnswersTrue ==
    (resp.op = "delete" /\ resp.iface = "rest" /\ resp.exc = "none") =>
        resp.json = "true"

\* C9: the listing holds exactly one record per symbol upserted and not
\* deleted since, is empty and not an error on a new store, grows by the
\* number of new distinct symbols of an upsert and shrinks by one on a
\* successful delete.
C9_ListingIsTheLiveSymbols ==
    LET all == get_tracked_tickers(tickers)
    IN  /\ {all[i].symbol : i \in 1..Len(all)} = live
        /\ Len(all) = Cardinality(live)
        /\ resp.op = "init" => all = << >>
        /\ resp.op = "get_all" =>
               /\ resp.exc = "none"
               /\ resp.iface = "rest" => resp.status = 200
               /\ {resp.result[i].symbol : i \in 1..Len(resp.result)} = live
               /\ Len(resp.result) = Cardinality(live)
        /\ SaveDone =>
               Len(all) = Cardinality(resp.before)
                          + Cardinality(PayloadSymbols(resp.payload) \ SymbolsOf(resp.before))
        /\ (resp.op = "delete" /\ resp.exc = "none") =>
               Len(all) = Cardinality(resp.before) - 1

\* Two symbols are listed after the first row had been deleted.
C9_Witness ==
    /\ resp.op = "get_all"
    /\ Len(resp.result) = 2
    /\ \A r \in tickers : r.id # 1

C12_RestartKeepsCommittedRecords ==
    /\ resp.op = "restart" =>
           /\ tickers = resp.before
           /\ get_tracked_tickers(tickers) = get_tracked_tickers(resp.before)
           /\ SymbolsOf(tickers) = live
    /\ LET once == init_db(tickers, sqlite_sequence)
       IN  /\ init_db(once.rows, once.seq) = once
           /\ once.rows = tickers

\* The services were restarted on a file that holds two rows.
C12_Witness ==
    /\ resp.op = "restart"
    /\ Cardinality(tickers) = 2

\* The batch of the last request with the client's timestamps removed.
PlainBatch ==
    [i \in 1..Len(resp.payload) |->
        [symbol |-> resp.payload[i].symbol[1], quantity |-> resp.payload[i].quantity[1],
         createad_at |-> None, updated_at |-> None]]

\* C13: the timestamps of the stored rows come from the server clock only:
\* after an upsert the table is the one the same batch without any client
\* timestamp would have left, and no stored timestamp is a client's.
C13_TimestampsAreServerAssigned ==
    SaveDone =>
        LET n == Len(resp.payload)
        IN  /\ \E ts \in [1..n -> 0..resp.at] :
                /\ \A i \in 1..n - 1 : ts[i] <= ts[i + 1]
                /\ n > 0 => ts[n] = resp.at
                /\ save_tracked_tickers(resp.before, sqlite_sequence - n,
                                        PlainBatch, ts).rows = tickers
            /\ \A r \in tickers :
                /\ r.created_at \notin ClientTimestamps
                /\ r.updated_at \notin ClientTimestamps
                /\ r.created_at <= r.updated_at

\* An upsert whose element carried client timestamps was stored, once as a
\* new row and once over a stored row.
C13_Witness ==
    /\ SaveDone
    /\ Len(resp.payload) = 2
    /\ resp.payload[1].updated_at # None
    /\ resp.payload[2].createad_at # None
    /\ resp.before = {}

\* ================================================ concurrent callers
\* The REST thread and the tool server run in one process and open one
\* connection per repository call on the same file.
Callers == {"rest", "mcp"}

\* Batches the concurrent callers upsert: valid elements without client
\* timestamps, one quantity per symbol.
ConcElements ==
    {e \in PayloadElements :
        /\ TickerValid(e) /\ e.updated_at = None
        /\ e.quantity # Some(NaN)
        /\ (e.symbol = Some("AAPL")) = (e.quantity = Some(5))}
ConcBatches == SeqsUpTo(ConcElements, MaxBatch)

\* One repository call of a caller: its position, its connection's private
\* (uncommitted) copy of the table and of the rowid sequence, the clock
\* second of each statement it ran, and what it returned.
ConcCall(pc, op, batch, symbol, i, work, wseq, times, result, exc, seen) ==
    [pc |-> pc, op |-> op, batch |-> batch, symbol |-> symbol, i |-> i,
     work |-> work, wseq |-> wseq, times |-> times, result |-> result,
     exc |-> exc, seen |-> seen]

NoCall == ConcCall("idle", "none", << >>, "", 1, {}, 0, << >>, << >>, "none", {})

\* The last committed transaction: the table it found, what it ran and the
\* table it left.
NoCommit == [op |-> "none", before |-> {}, seq |-> 0, batch |-> << >>,
             symbol |-> "", times |-> << >>, after |-> {}]

InitConc ==
    /\ tickers = {}
    /\ sqlite_sequence = 0
    /\ clock = 0
    /\ live = {}
    /\ resp = Response(Request("none", "none", "", << >>), 0, "none", "null",
                       << >>, FALSE, 0)
    /\ conc = [proc |-> [c \in Callers |-> NoCall], lock |-> "none",
               whole |-> {}, log |-> NoCommit]
    /\ scorer = Idle
    /\ listing = Idle
    /\ extraction = Idle
    /\ indices = Idle

\* The table the other connections read while a transaction is open: the
\* statements of a "with sqlite3.connect(...) as conn" block stay private
\* to the connection until the block commits.
visible_autocommit(committed, work) == work

visible(committed, work) == committed

Free(c) == conc.proc[c].pc \in {"idle", "done"}

\* The call returned: the connection and its private state are gone.
Returned(op, result, exc, seen) ==
    ConcCall("done", op, << >>, "", 1, {}, 0, << >>, result, exc, seen)

\* A caller enters save_tracked_tickers / get_tracked_tickers /
\* delete_tracked_ticker_by_symbol: the connection is opened, nothing is
\* locked yet.
ConcEnter(c, op, batch, symbol) ==
    /\ Free(c)
    /\ conc' = [conc EXCEPT !.proc[c] =
                   ConcCall("run", op, batch, symbol, 1, {}, 0, << >>, << >>,
                            "none", {})]
    /\ UNCHANGED << tickers, sqlite_sequence, clock, live, resp, scorer, listing,
                     extraction, indices >>

\* One conn.execute(INSERT ... ON CONFLICT ...) of the loop. The first one
\* opens the transaction and takes the write lock of the file.
ConcExecuteUpsert(c) ==
    LET p == conc.proc[c]
        first == conc.lock # c
        rows == IF first THEN tickers ELSE p.work
        seq == IF first THEN sqlite_sequence ELSE p.wseq
        done == Upsert(rows, seq, TickerFromPayload(p.batch[p.i]), clock)
    IN  /\ p.pc = "run" /\ p.op = "save" /\ p.i <= Len(p.batch)
        /\ conc.lock \in {"none", c}
        /\ done.seq <= MaxSeq
        /\ conc' = [conc EXCEPT !.lock = c,
                       !.proc[c] = [p EXCEPT !.i = p.i + 1, !.work = done.rows,
                                             !.wseq = done.seq,
                                             !.times = Append(p.times, clock)]]
        /\ tickers' = visible(tickers, done.rows)
        /\ UNCHANGED << sqlite_sequence, clock, live, resp, scorer, listing,
                     extraction, indices >>

\* conn.execute(DELETE ...): a miss raises inside the block, which rolls
\* back; a hit leaves the deletion to the commit of the block.
ConcExecuteDelete(c) ==
    LET p == conc.proc[c]
        done == delete_tracked_ticker_by_symbol(tickers, p.symbol)
    IN  /\ p.pc = "run" /\ p.op = "delete" /\ p.i = 1
        /\ conc.lock = "none"
        /\ IF done.exc # "none"
           THEN /\ conc' = [conc EXCEPT !.proc[c] =
                               Returned(p.op, << >>, done.exc, {})]
                /\ UNCHANGED tickers
           ELSE /\ conc' = [conc EXCEPT !.lock = c,
                               !.proc[c] = [p EXCEPT !.i = 2, !.work = done.rows,
                                                     !.wseq = sqlite_sequence,
                                                     !.times = << clock >>]]
                /\ tickers' = visible(tickers, done.rows)
        /\ UNCHANGED << sqlite_sequence, clock, live, resp, scorer, listing,
                     extraction, indices >>

\* The write lock is held by the other connection for longer than the
\* connection's busy timeout: OperationalError("database is locked"), the
\* block rolls back and the call fails without effect.
ConcBusy(c) ==
    LET p == conc.proc[c]
    IN  /\ p.pc = "run" /\ p.op \in {"save", "delete"}
        /\ p.i <= (IF p.op = "save" THEN Len(p.batch) ELSE 1)
        /\ conc.lock \notin {"none", c}
        /\ conc' = [conc EXCEPT !.proc[c] =
                       Returned(p.op, << >>, "OperationalError", {})]
        /\ UNCHANGED << tickers, sqlite_sequence, clock, live, resp, scorer, listing,
                     extraction, indices >>

\* The "with" block ends: the transaction commits and the file shows all
\* of its statements at once.
ConcCommit(c) ==
    LET p == conc.proc[c]
        wrote == conc.lock = c
    IN  /\ p.pc = "run" /\ p.op \in {"save", "delete"}
        /\ p.i > (IF p.op = "save" THEN Len(p.batch) ELSE 1)
        /\ tickers' = IF wrote THEN p.work ELSE tickers
        /\ sqlite_sequence' = IF wrote THEN p.wseq ELSE sqlite_sequence
        /\ conc' = [conc EXCEPT
               !.lock = IF wrote THEN "none" ELSE conc.lock,
               !.whole = tickers',
               !.log = [op |-> p.op, before |-> conc.whole,
                        seq |-> sqlite_sequence, batch |-> p.batch,
                        symbol |-> p.symbol, times |-> p.times,
                        after |-> tickers'],
               !.proc[c] = Returned(p.op, << >>, "none", {})]
        /\ UNCHANGED << clock, live, resp, scorer, listing,
                     extraction, indices >>

\* conn.execute("SELECT * FROM tickers").fetchall(): one statement, read
\* under the shared lock of the file.
ConcGetTrackedTickers(c) ==
    LET p == conc.proc[c]
    IN  /\ p.pc = "run" /\ p.op = "get_all"
        /\ conc' = [conc EXCEPT !.proc[c] =
                       Returned(p.op, get_tracked_tickers(tickers), "none",
                                conc.whole)]
        /\ UNCHANGED << tickers, sqlite_sequence, clock, live, resp, scorer, listing,
                     extraction, indices >>

NextConc ==
    \/ Tick
    \/ \E c \in Callers, batch \in ConcBatches : ConcEnter(c, "save", batch, "")
    \/ \E c \in Callers : ConcEnter(c, "get_all", << >>, "")
    \/ \E c \in Callers, symbol \in Symbols : ConcEnter(c, "delete", << >>, symbol)
    \/ \E c \in Callers : ConcExecuteUpsert(c)
    \/ \E c \in Callers : ConcExecuteDelete(c)
    \/ \E c \in Callers : ConcBusy(c)
    \/ \E c \in Callers : ConcCommit(c)
    \/ \E c \in Callers : ConcGetTrackedTickers(c)

SpecConc == InitConc /\ [][NextConc]_vars

UniqueSymbols(rows) == \A r1, r2 \in rows : r1.symbol = r2.symbol => r1 = r2

\* The table a whole call leaves, computed on the table it found.
WholeCall(log) ==
    IF log.op = "save"
    THEN save_tracked_tickers(log.before, log.seq,
             [i \in 1..Len(log.batch) |-> TickerFromPayload(log.batch[i])],
             log.times).rows
    ELSE IF log.op = "delete"
    THEN delete_tracked_ticker_by_symbol(log.before, log.symbol).rows
    ELSE log.before

\* C11: under every interleaving of the two callers the file holds one row
\* per symbol, changes only by whole calls (each committed transaction
\* leaves what the call run alone on the table it found leaves), and a
\* listing shows the table as some whole call left it, never a part of a
\* batch.
C11_CallsAreSingleTransactions ==
    /\ UniqueSymbols(tickers)
    /\ \A c \in Callers : UniqueSymbols(conc.proc[c].work)
    /\ tickers = conc.whole
    /\ conc.log.after = WholeCall(conc.log)
    /\ \A c \in Callers :
           LET p == conc.proc[c]
           IN  p.pc = "done" /\ p.op = "get_all" =>
                   p.result = get_tracked_tickers(p.seen)

\* A listing was taken while the other caller had run the first of the two
\* statements of a batch of two new symbols: it shows neither.
C11_Witness ==
    \E c, d \in Callers :
        /\ c # d
        /\ conc.proc[c].pc = "done" /\ conc.proc[c].op = "get_all"
        /\ conc.proc[c].result = << >>
        /\ conc.proc[d].pc = "run" /\ conc.proc[d].op = "save"
        /\ Len(conc.proc[d].batch) = 2 /\ conc.proc[d].i = 2
        /\ conc.proc[d].batch[1].symbol # conc.proc[d].batch[2].symbol
        /\ Cardinality(conc.proc[d].work) = 1
        /\ conc.lock = d

\* ================================================== valuation scorer
\* Floats are exact rationals n/d in lowest terms with d > 0.
Abs(x) == IF x < 0 THEN -x ELSE x

RECURSIVE GCD(_, _)
GCD(a, b) == IF b = 0 THEN a ELSE GCD(b, a % b)

Rat(n, d) ==
    LET g == GCD(Abs(n), d)
    IN  [n |-> n \div g, d |-> d \div g]

RatAdd(a, b) == Rat(a.n * b.d + b.n * a.d, a.d * b.d)
RatSub(a, b) == Rat(a.n * b.d - b.n * a.d, a.d * b.d)
RatMul(a, b) == Rat(a.n * b.n, a.d * b.d)
RatLess(a, b) == a.n * b.d < b.n * a.d
RatMax(a, b) == IF RatLess(a, b) THEN b ELSE a
RatMin(a, b) == IF RatLess(b, a) THEN b ELSE a

\* What a call does: it returns a value (None or a number) or it raises.
Return(v) == [exc |-> "none", value |-> v]
Raise(e) == [exc |-> e, value |-> None]

\* Python's a / b on floats.
Divide(a, b) ==
    IF b.n = 0 THEN Raise("ZeroDivisionError")
    ELSE Return(Some(IF b.n > 0 THEN Rat(a.n * b.d, a.d * b.n)
                     ELSE Rat(-(a.n * b.d), a.d * (-b.n))))

\* round(x, 2): to the nearest hundredth, a tie to the even one.
round2(x) ==
    LET h == x.n * 100
        f == h \div x.d
        r == h - f * x.d
    IN  IF 2 * r < x.d THEN Rat(f, 100)
        ELSE IF 2 * r > x.d THEN Rat(f + 1, 100)
        ELSE IF f % 2 = 0 THEN Rat(f, 100) ELSE Rat(f + 1, 100)

\* "if x": None and 0 are both false.
Truthy(x) == x # None /\ x[1].n # 0

\* min(max(x, 0), 100)
Clamp(x) == RatMin(RatMax(x, Rat(0, 1)), Rat(100, 1))

\* -- compute_discount, on the mapping it calls .get on
compute_discount(values) ==
    LET price == values.currentPrice
        target == values.targetMeanPrice
    IN  IF Truthy(price) /\ Truthy(target) /\ target[1].n # 0
        THEN Divide(RatSub(target[1], price[1]), target[1])
        ELSE Return(None)

\* -- compute_peg
compute_peg_unguarded(values) ==
    LET fpe == values.forwardPE
        growth == values.earningsGrowth
    IN  IF fpe # None /\ growth # None
        THEN Divide(fpe[1], growth[1])
        ELSE Return(None)

compute_peg(values) ==
    LET fpe == values.forwardPE
        growth == values.earningsGrowth
    IN  IF Truthy(fpe) /\ Truthy(growth) /\ growth[1].n # 0
        THEN Divide(fpe[1], growth[1])
        ELSE Return(None)

\* -- compute_score
weights == [discount |-> Rat(4, 10), peg |-> Rat(3, 10), pe |-> Rat(2, 10),
            dividend |-> Rat(1, 10)]

\* One "score += ..." of compute_score: the quotient q / x scaled to a
\* percentage, clamped and weighted; a raise of the division goes through.
AddQuotient(score, q, x, w) ==
    LET inv == Divide(Rat(q, 1), x)
    IN  IF score.exc # "none" THEN score
        ELSE IF inv.exc # "none" THEN Raise(inv.exc)
        ELSE Return(Some(RatAdd(score.value[1],
                 RatMul(Clamp(RatMul(inv.value[1], Rat(100, 1))), w))))

AddProduct(score, x, w) ==
    IF score.exc # "none" THEN score
    ELSE Return(Some(RatAdd(score.value[1],
             RatMul(Clamp(RatMul(x, Rat(100, 1))), w))))

compute_score_unclamped(values) ==
    LET discount == values.discountToTarget
        peg == values.pegRatio
        pe == values.trailingPE
        dy == values.dividendYield
        hundred == Rat(100, 1)
        s0 == Rat(0, 1)
        s1 == IF discount # None
              THEN RatAdd(s0, RatMul(RatMul(discount[1], hundred), weights.discount))
              ELSE s0
        s2 == IF peg # None /\ peg[1].n > 0
              THEN RatAdd(s1, RatMul(RatMul(Divide(Rat(1, 1), peg[1]).value[1], hundred),
                                     weights.peg))
              ELSE s1
        s3 == IF pe # None /\ pe[1].n > 0
              THEN RatAdd(s2, RatMul(RatMul(Divide(Rat(15, 1), pe[1]).value[1], hundred),
                                     weights.pe))
              ELSE s2
        s4 == IF dy # None
              THEN RatAdd(s3, RatMul(RatMul(dy[1], hundred), weights.dividend))
              ELSE s3
    IN  Return(Some(round2(s4)))

\* Every term weighs a quarter.
compute_score_equal_weights(values) ==
    LET discount == values.discountToTarget
        peg == values.pegRatio
        pe == values.trailingPE
        dy == values.dividendYield
        w == Rat(1, 4)
        s0 == Return(Some(Rat(0, 1)))
        s1 == IF discount # None THEN AddProduct(s0, discount[1], w) ELSE s0
        s2 == IF peg # None /\ peg[1].n > 0 THEN AddQuotient(s1, 1, peg[1], w) ELSE s1
        s3 == IF pe # None /\ pe[1].n > 0 THEN AddQuotient(s2, 15, pe[1], w) ELSE s2
        s4 == IF dy # None THEN AddProduct(s3, dy[1], w) ELSE s3
    IN  IF s4.exc # "none" THEN s4 ELSE Return(Some(round2(s4.value[1])))

\* Nothing to add up: no score.
compute_score_none_without_terms(values) ==
    IF /\ values.discountToTarget = None
       /\ values.dividendYield = None
       /\ (values.pegRatio = None \/ values.pegRatio[1].n <= 0)
       /\ (values.trailingPE = None \/ values.trailingPE[1].n <= 0)
    THEN Return(None)
    ELSE compute_score_unclamped(values)

compute_score(values) ==
    LET discount == values.discountToTarget
        peg == values.pegRatio
        pe == values.trailingPE
        dy == values.dividendYield
        s0 == Return(Some(Rat(0, 1)))
        s1 == IF discount # None
              THEN AddProduct(s0, discount[1], weights.discount) ELSE s0
        s2 == IF peg # None /\ peg[1].n > 0
              THEN AddQuotient(s1, 1, peg[1], weights.peg) ELSE s1
        s3 == IF pe # None /\ pe[1].n > 0
              THEN AddQuotient(s2, 15, pe[1], weights.pe) ELSE s2
        s4 == IF dy # None
              THEN AddProduct(s3, dy[1], weights.dividend) ELSE s3
    IN  IF s4.exc # "none" THEN s4 ELSE Return(Some(round2(s4.value[1])))

\* -- the TickerSummary model and the scorer's inputs
Num(n, d) == Some(Rat(n, d))

currentPrices == {None, Num(0, 1), Num(90, 1), Num(-90, 1)}
targetMeanPrices == {None, Num(0, 1), Num(100, 1), Num(-100, 1)}
forwardPEs == {None, Num(0, 1), Num(20, 1), Num(-20, 1)}
earningsGrowths == {None, Num(0, 1), Num(1, 4), Num(-1, 4)}
trailingPEs == {None, Num(0, 1), Num(10, 1), Num(30, 1), Num(-30, 1)}
dividendYields == {None, Num(0, 1), Num(1, 50), Num(2, 1), Num(-1, 50)}
discountToTargets == {None, Num(0, 1), Num(1, 2), Num(3, 2), Num(-1, 2)}
pegRatios == {None, Num(0, 1), Num(2, 1), Num(1, 2), Num(-2, 1)}

\* The fields of a TickerSummary the scorer reads and writes.
Fields(price, target, fpe, growth, pe, dy, discount, peg) ==
    [currentPrice |-> price, targetMeanPrice |-> target, forwardPE |-> fpe,
     earningsGrowth |-> growth, trailingPE |-> pe, dividendYield |-> dy,
     discountToTarget |-> discount, pegRatio |-> peg]

\* Raw fundamentals, nothing derived yet.
RawValues ==
    {Fields(price, target, fpe, growth, pe, dy, None, None) :
        price \in currentPrices, target \in targetMeanPrices,
        fpe \in forwardPEs, growth \in earningsGrowths,
        pe \in trailingPEs, dy \in dividendYields}

\* The four fields compute_score reads, in every combination.
ScoreValues ==
    {Fields(None, None, None, None, pe, dy, discount, peg) :
        pe \in trailingPEs, dy \in dividendYields,
        discount \in discountToTargets, peg \in pegRatios}

\* A computed field in the constructor's keywords: absent, or some value.
Absent == << >>
Given(v) == << v >>
SuppliedFields ==
    [discountToTarget : {Absent, Given(Num(7, 1))},
     pegRatio : {Absent, Given(Num(7, 1))},
     undervaluation_score : {Absent, Given(Num(7, 1))}]
NothingSupplied ==
    [discountToTarget |-> Absent, pegRatio |-> Absent, undervaluation_score |-> Absent]

NoObject == [discountToTarget |-> None, pegRatio |-> None, undervaluation_score |-> None]

\* The validators take pydantic's ValidationInfo as their "values"
\* parameter; it keeps the validated fields in .data and has no .get.
ValidationInfoHasGet == FALSE

\* @field_validator(name): the validator runs only when the field is in
\* the constructor's keywords; a field left out keeps its default None.
field_validator(given, derived) ==
    IF given = Absent THEN Return(None)
    ELSE IF ValidationInfoHasGet THEN derived
    ELSE Raise("AttributeError")

\* TickerSummary(**raw, **supplied): the fields are validated in the
\* order of their declaration, each validator seeing the ones before it.
TickerSummary(raw, supplied) ==
    LET discount == field_validator(supplied.discountToTarget, compute_discount(raw))
        v1 == [raw EXCEPT !.discountToTarget = discount.value]
        peg == field_validator(supplied.pegRatio, compute_peg(v1))
        v2 == [v1 EXCEPT !.pegRatio = peg.value]
        score == field_validator(supplied.undervaluation_score, compute_score(v2))
    IN  IF discount.exc # "none" THEN [exc |-> discount.exc, obj |-> NoObject]
        ELSE IF peg.exc # "none" THEN [exc |-> peg.exc, obj |-> NoObject]
        ELSE IF score.exc # "none" THEN [exc |-> score.exc, obj |-> NoObject]
        ELSE [exc |-> "none",
              obj |-> [discountToTarget |-> discount.value, pegRatio |-> peg.value,
                       undervaluation_score |-> score.value]]

Scored(op, values, supplied, out, obj) ==
    [op |-> op, values |-> values, supplied |-> supplied, out |-> out, obj |-> obj]

InitScorer ==
    /\ tickers = {}
    /\ sqlite_sequence = 0
    /\ clock = 0
    /\ live = {}
    /\ resp = Response(Request("none", "none", "", << >>), 0, "none", "null",
                       << >>, FALSE, 0)
    /\ conc = Idle
    /\ listing = Idle
    /\ extraction = Idle
    /\ indices = Idle
    /\ scorer \in {Scored("input", values, NothingSupplied, Return(None), NoObject) :
                      values \in RawValues \cup ScoreValues}

portfolio == << tickers, sqlite_sequence, clock, live, resp >>

ScorerComputeDiscount ==
    /\ scorer.op = "input"
    /\ scorer' = [scorer EXCEPT !.op = "compute_discount",
                                !.out = compute_discount(scorer.values)]
    /\ UNCHANGED << portfolio, conc, listing, extraction, indices >>

ScorerComputePeg ==
    /\ scorer.op = "input"
    /\ scorer' = [scorer EXCEPT !.op = "compute_peg",
                                !.out = compute_peg(scorer.values)]
    /\ UNCHANGED << portfolio, conc, listing, extraction, indices >>

ScorerComputeScore ==
    /\ scorer.op = "input"
    /\ scorer' = [scorer EXCEPT !.op = "compute_score",
                                !.out = compute_score(scorer.values)]
    /\ UNCHANGED << portfolio, conc, listing, extraction, indices >>

ScorerConstruct(supplied) ==
    /\ scorer.op = "input"
    /\ scorer.values \in RawValues
    /\ LET made == TickerSummary(scorer.values, supplied)
       IN  scorer' = [scorer EXCEPT !.op = "construct", !.supplied = supplied,
                                    !.out = [exc |-> made.exc, value |-> None],
                                    !.obj = made.obj]
    /\ UNCHANGED << portfolio, conc, listing, extraction, indices >>

NextScorer ==
    \/ ScorerComputeDiscount
    \/ ScorerComputePeg
    \/ ScorerComputeScore
    \/ \E supplied \in SuppliedFields : ScorerConstruct(supplied)

SpecScorer == InitScorer /\ [][NextScorer]_vars

\* -- what the claims say the fields are
DiscountFormula(values) ==
    LET price == values.currentPrice
        target == values.targetMeanPrice
    IN  IF price # None /\ target # None /\ target[1].n # 0
        THEN Divide(RatSub(target[1], price[1]), target[1]).value
        ELSE None

PegFormula(values) ==
    LET fpe == values.forwardPE
        growth == values.earningsGrowth
    IN  IF fpe # None /\ growth # None /\ growth[1].n # 0
        THEN Divide(fpe[1], growth[1]).value
        ELSE None

\* C14: discountToTarget is (targetMeanPrice - currentPrice) / targetMeanPrice
\* when both are present and targetMeanPrice # 0, currentPrice = 0
\* included, and null otherwise.
C14_DiscountIsTheFormula ==
    scorer.op = "compute_discount" =>
        scorer.out = Return(DiscountFormula(scorer.values))

\* C15: pegRatio is forwardPE / earningsGrowth when both are present and
\* earningsGrowth # 0, forwardPE = 0 included, and null otherwise.
C15_PegIsTheFormula ==
    scorer.op = "compute_peg" =>
        scorer.out = Return(PegFormula(scorer.values))

\* C16: whatever discountToTarget, pegRatio, trailingPE and dividendYield
\* are, the score compute_score returns lies in [0, 100].
C16_ScoreInRange ==
    scorer.op = "compute_score" =>
        /\ scorer.out.exc = "none"
        /\ scorer.out.value # None
        /\ ~RatLess(scorer.out.value[1], Rat(0, 1))
        /\ ~RatLess(Rat(100, 1), scorer.out.value[1])

\* All four terms are defined and each is clamped at its top: the score
\* is 100.
C16_Witness ==
    /\ scorer.op = "compute_score"
    /\ scorer.values.discountToTarget = Num(3, 2)
    /\ scorer.values.pegRatio = Num(1, 2)
    /\ scorer.values.trailingPE = Num(10, 1)
    /\ scorer.values.dividendYield = Num(2, 1)
    /\ scorer.out = Return(Num(100, 1))

\* The terms of the score as the specification lists them.
DiscountTerm(values) ==
    IF values.discountToTarget # None
    THEN RatMul(Clamp(RatMul(values.discountToTarget[1], Rat(100, 1))), Rat(4, 10))
    ELSE Rat(0, 1)

PegTerm(values) ==
    IF values.pegRatio # None /\ RatLess(Rat(0, 1), values.pegRatio[1])
    THEN RatMul(Clamp(Divide(Rat(100, 1), values.pegRatio[1]).value[1]), Rat(3, 10))
    ELSE Rat(0, 1)

PETerm(values) ==
    IF values.trailingPE # None /\ RatLess(Rat(0, 1), values.trailingPE[1])
    THEN RatMul(Clamp(Divide(Rat(1500, 1), values.trailingPE[1]).value[1]), Rat(2, 10))
    ELSE Rat(0, 1)

DividendTerm(values) ==
    IF values.dividendYield # None
    THEN RatMul(Clamp(RatMul(values.dividendYield[1], Rat(100, 1))), Rat(1, 10))
    ELSE Rat(0, 1)

\* C17: the score is the sum, rounded to two decimals, of the terms whose
\* precondition holds; a term whose precondition fails adds nothing.
C17_ScoreIsRoundedSumOfDefinedTerms ==
    scorer.op = "compute_score" =>
        scorer.out = Return(Some(round2(
            RatAdd(RatAdd(DiscountTerm(scorer.values), PegTerm(scorer.values)),
                   RatAdd(PETerm(scorer.values), DividendTerm(scorer.values))))))

\* discountToTarget = 0.5 and the other three null: the score is 20.0.
C17_Witness ==
    /\ scorer.op = "compute_score"
    /\ scorer.values.discountToTarget = Num(1, 2)
    /\ scorer.values.pegRatio = None
    /\ scorer.values.trailingPE = None
    /\ scorer.values.dividendYield = None
    /\ scorer.out = Return(Num(20, 1))

\* C18: for every combination of null, zero, negative and positive raw
\* inputs none of the three derivations raises, nor does the construction
\* from raw inputs alone; a null input or a zero divisor gives a null
\* field.
C18_DerivationsNeverRaise ==
    /\ scorer.op \in {"compute_discount", "compute_peg", "compute_score"} =>
           scorer.out.exc = "none"
    /\ scorer.op = "construct" /\ scorer.supplied = NothingSupplied =>
           scorer.out.exc = "none"
    /\ scorer.op = "compute_discount"
         /\ (\/ scorer.values.currentPrice = None
             \/ scorer.values.targetMeanPrice \in {None, Num(0, 1)}) =>
           scorer.out.value = None
    /\ scorer.op = "compute_peg"
         /\ (\/ scorer.values.forwardPE = None
             \/ scorer.values.earningsGrowth \in {None, Num(0, 1)}) =>
           scorer.out.value = None

\* forwardPE = 20 and earningsGrowth = 0: compute_peg returned null.
C18_Witness ==
    /\ scorer.op = "compute_peg"
    /\ scorer.values.forwardPE = Num(20, 1)
    /\ scorer.values.earningsGrowth = Num(0, 1)
    /\ scorer.out = Return(None)

\* C19: whatever the caller supplies for the computed fields, or leaves
\* out, the constructed TickerSummary carries the formulas' results on
\* its raw fields, the score being the one of the derived discountToTarget
\* and pegRatio.
C19_ComputedFieldsDependOnRawOnly ==
    scorer.op = "construct" =>
        LET derived == [scorer.values EXCEPT
                            !.discountToTarget = DiscountFormula(scorer.values),
                            !.pegRatio = PegFormula(scorer.values)]
        IN  /\ scorer.out.exc = "none"
            /\ scorer.obj.discountToTarget = derived.discountToTarget
            /\ scorer.obj.pegRatio = derived.pegRatio
            /\ scorer.obj.undervaluation_score = compute_score(derived).value

\* ==================================================== listing summary
MaxSymbols == 3

ListingSymbols == {"AAPL", "GOOGL", "MSFT", "NOPE"}
SymbolLists == SeqsUpTo(ListingSymbols, MaxSymbols)

\* The methods class StockExtractionService defines.
StockExtractionService ==
    {"__init__", "extract_ticker_info", "extract_quarterly_financials",
     "extract_yearly_financials", "extract_market_data",
     "extract_corporate_actions", "extract_recommendations",
     "extract_revisions", "extract_price_targets", "extract_calendar",
     "extract_news", "extract_top_companies", "extract_top_etfs",
     "extract_top_funds", "_getTicker", "_join_financial_statements",
     "_df_to_json_safe"}

\* service.<name>: the attribute lookup on the service object.
getattr(name) ==
    IF name \in StockExtractionService THEN Return(None)
    ELSE Raise("AttributeError")

Listed(caller, symbols, status, exc, records) ==
    [op |-> "listing_summary", caller |-> caller, symbols |-> symbols,
     status |-> status, exc |-> exc, records |-> records]

InitListing ==
    /\ tickers = {}
    /\ sqlite_sequence = 0
    /\ clock = 0
    /\ live = {}
    /\ resp = Response(Request("none", "none", "", << >>), 0, "none", "null",
                       << >>, FALSE, 0)
    /\ conc = Idle
    /\ scorer = Idle
    /\ listing = Idle
    /\ extraction = Idle
    /\ indices = Idle

\* POST /stock/listing-summary: the handler turns a ValueError into a 404;
\* any other exception leaves it and the framework answers 500.
RestExtractListingSummary(symbols) ==
    LET method == getattr("extract_listing_summary")
    IN  /\ method.exc # "none"
        /\ listing' = Listed("rest", symbols,
                             IF method.exc = "ValueError" THEN 404 ELSE 500,
                             method.exc, << >>)
        /\ UNCHANGED << portfolio, conc, scorer, extraction, indices >>

\* The get_listing_summary tool: the exception leaves the tool function.
McpGetListingSummary(symbols) ==
    LET method == getattr("extract_listing_summary")
    IN  /\ method.exc # "none"
        /\ listing' = Listed("mcp", symbols, 0, method.exc, << >>)
        /\ UNCHANGED << portfolio, conc, scorer, extraction, indices >>

NextListing ==
    \/ \E symbols \in SymbolLists : RestExtractListingSummary(symbols)
    \/ \E symbols \in SymbolLists : McpGetListingSummary(symbols)

SpecListing == InitListing /\ [][NextListing]_vars

\* C20: given a non-empty list of symbols the listing summary succeeds
\* (HTTP 200 over REST) and returns one record per symbol.
C20_ListingSummarySucceeds ==
    listing.op = "listing_summary" /\ listing.symbols # << >> =>
        /\ listing.exc = "none"
        /\ listing.caller = "rest" => listing.status = 200
        /\ Len(listing.records) = Len(listing.symbols)

\* None of the four terms of the score is defined.
NoTermDefined(values) ==
    /\ values.discountToTarget = None
    /\ values.dividendYield = None
    /\ (values.pegRatio = None \/ ~RatLess(Rat(0, 1), values.pegRatio[1]))
    /\ (values.trailingPE = None \/ ~RatLess(Rat(0, 1), values.trailingPE[1]))

\* Every term that is defined is clamped to zero.
AllTermsClampToZero(values) ==
    /\ values.discountToTarget # None /\ ~RatLess(Rat(0, 1), values.discountToTarget[1])
    /\ values.dividendYield # None /\ ~RatLess(Rat(0, 1), values.dividendYield[1])
    /\ (values.pegRatio = None \/ ~RatLess(Rat(0, 1), values.pegRatio[1]))
    /\ (values.trailingPE = None \/ ~RatLess(Rat(0, 1), values.trailingPE[1]))

\* C30: with no term defined compute_score returns the number 0.0, not
\* null, which is also what it returns when every defined term clamps to
\* zero.
C30_ScoreWithoutTermsIsZero ==
    scorer.op = "compute_score"
      /\ (NoTermDefined(scorer.values) \/ AllTermsClampToZero(scorer.values)) =>
        scorer.out = Return(Num(0, 1))

\* compute_score ran on a record without data (a non-positive pegRatio and
\* trailingPE count as none) and returned 0.0.
C30_Witness ==
    /\ scorer.op = "compute_score"
    /\ NoTermDefined(scorer.values)
    /\ scorer.values.pegRatio = Num(0, 1)
    /\ scorer.values.trailingPE = Num(-30, 1)
    /\ scorer.out = Return(Num(0, 1))

\* The rows a batch leaves when every element is written: the ones of
\* the symbols it does not name, and one per symbol it names, holding the
\* quantity of that symbol's last element.
LastWins(before, payload, now) ==
    /\ SymbolsOf(now) = SymbolsOf(before) \cup PayloadSymbols(payload)
    /\ \A r \in now :
        /\ r.symbol \notin PayloadSymbols(payload) => r \in before
        /\ \A i \in 1..Len(payload) :
            /\ payload[i].symbol = Some(r.symbol)
            /\ \A j \in i + 1..Len(payload) : payload[j].symbol # Some(r.symbol)
            => r.quantity = payload[i].quantity[1]

\* C29: a batch is applied all or nothing: when the write of an element
\* fails the table is as before the call, the earlier elements of the
\* batch included, and when none fails every element is stored, the last
\* one of a repeated symbol winning.
C29_BatchIsAllOrNothing ==
    resp.op = "save" /\ resp.repo_called =>
        IF resp.exc = "none"
        THEN /\ UniqueSymbols(tickers)
             /\ LastWins(resp.before, resp.payload, tickers)
        ELSE /\ tickers = resp.before
             /\ SymbolsOf(tickers) = live

\* A batch of a good element for a new symbol followed by one whose write
\* fails was refused, and the new symbol is not stored.
C29_Witness ==
    /\ resp.op = "save" /\ resp.exc = "IntegrityError"
    /\ Len(resp.payload) = 2
    /\ resp.payload[1].quantity = Some(5)
    /\ resp.payload[1].symbol = Some("AAPL")
    /\ resp.payload[2].quantity = Some(NaN)
    /\ "AAPL" \notin SymbolsOf(tickers)
    /\ "AAPL" \notin SymbolsOf(resp.before)

\* ==================================================== store failures
\* The file is shared with whatever else writes it: a column declared
\* TIMESTAMP holds any text. Unparseable stands for text in updated_at
\* that is no timestamp, a value no reading of the clock gives.
Unparseable == MaxClock + 2

\* Ticker(**dict(row)) validates the row's values against the model's
\* types.
Ticker_of_row(row) ==
    IF row.updated_at = Unparseable
    THEN [exc |-> "ValidationError", ret |-> << >>]
    ELSE [exc |-> "none", ret |-> << TickerFromRow(row) >>]

\* The classes an "except <class>" clause catches an exception of:
\* pydantic's ValidationError derives from ValueError, sqlite3's
\* OperationalError does not.
Bases ==
    [none |-> {},
     ValueError |-> {"ValueError", "Exception"},
     ValidationError |-> {"ValidationError", "ValueError", "Exception"},
     OperationalError |-> {"OperationalError", "Exception"},
     AttributeError |-> {"AttributeError", "Exception"},
     HTTPError |-> {"HTTPError", "Exception"}]

Catches(class, exc) == class \in Bases[exc]

\* A storage fault: sqlite3.connect or conn.execute raises.
StorageFaults == {"none", "OperationalError"}

\* get_tracked_ticker_by_symbol on such a file.
get_tracked_ticker_by_symbol_checked(rows, symbol, fault) ==
    LET found == {r \in rows : SymbolEq(r.symbol, symbol)}
    IN  IF fault # "none" THEN [exc |-> fault, ret |-> << >>]
        ELSE IF found # {} THEN Ticker_of_row(CHOOSE r \in found : TRUE)
        ELSE [exc |-> "ValueError", ret |-> << >>]

\* get_tracked_tickers on such a file: the first row that fails validation
\* ends the call.
get_tracked_tickers_checked(rows, fault) ==
    IF fault # "none" THEN [exc |-> fault, ret |-> << >>]
    ELSE IF \E r \in rows : Ticker_of_row(r).exc # "none"
    THEN [exc |-> "ValidationError", ret |-> << >>]
    ELSE [exc |-> "none", ret |-> get_tracked_tickers(rows)]

delete_tracked_ticker_by_symbol_checked(rows, symbol, fault) ==
    IF fault # "none" THEN [rows |-> rows, exc |-> fault, ret |-> "None"]
    ELSE remove_ticker(rows, symbol)

\* Rows of the two symbols as this program or another one left them.
FileRows ==
    {[id |-> IF s = "AAPL" THEN 1 ELSE 2, symbol |-> s, quantity |-> q,
      created_at |-> 0, updated_at |-> u] :
        s \in Symbols, q \in Quantities, u \in {0, Unparseable}}

Files == {rows \in SUBSET FileRows : UniqueSymbols(rows)}

InitFaults ==
    /\ tickers \in Files
    /\ sqlite_sequence = 2
    /\ clock = 0
    /\ live = SymbolsOf(tickers)
    /\ resp = Response(Request("none", "none", "", << >>), 0, "none", "null",
                       << >>, FALSE, 0)
    /\ conc = Idle
    /\ scorer = Idle
    /\ listing = Idle
    /\ extraction = Idle
    /\ indices = Idle

\* GET /portfolio/tickers: the handler has no except clause.
FaultyGetTrackedTickers(fault) ==
    LET r == get_tracked_tickers_checked(tickers, fault)
    IN  /\ resp' = Response(Request("rest", "get_all", "", << >>),
                            IF r.exc = "none" THEN 200 ELSE 500, r.exc,
                            IF r.exc = "none" THEN JsonOf("list") ELSE "error",
                            r.ret, TRUE, clock)
        /\ UNCHANGED << tickers, sqlite_sequence, clock, live, others >>

\* GET /portfolio/tickers/{symbol}: except ValueError -> 404.
FaultyGetTrackedTicker(symbol, fault) ==
    LET r == get_tracked_ticker_by_symbol_checked(tickers, symbol, fault)
        req == Request("rest", "get", symbol, << >>)
    IN  /\ resp' = IF r.exc = "none"
                   THEN Response(req, 200, r.exc, JsonOf("Ticker"), r.ret, TRUE, clock)
                   ELSE IF Catches("ValueError", r.exc)
                   THEN Response(req, 404, r.exc, "error", << >>, TRUE, clock)
                   ELSE Response(req, 500, r.exc, "error", << >>, TRUE, clock)
        /\ UNCHANGED << tickers, sqlite_sequence, clock, live, others >>

\* DELETE /portfolio/tickers/{symbol}: except ValueError -> 404, except
\* Exception -> 500.
FaultyDeleteTrackedTicker(symbol, fault) ==
    LET r == delete_tracked_ticker_by_symbol_checked(tickers, symbol, fault)
        req == Request("rest", "delete", symbol, << >>)
    IN  /\ tickers' = r.rows
        /\ live' = IF r.exc = "none" THEN live \ {symbol} ELSE live
        /\ resp' = IF r.exc = "none"
                   THEN Response(req, 200, r.exc, JsonOf(r.ret), << >>, TRUE, clock)
                   ELSE IF Catches("ValueError", r.exc)
                   THEN Response(req, 404, r.exc, "error", << >>, TRUE, clock)
                   ELSE Response(req, 500, r.exc, "error", << >>, TRUE, clock)
        /\ UNCHANGED << sqlite_sequence, clock, others >>

NextFaults ==
    \/ \E fault \in StorageFaults : FaultyGetTrackedTickers(fault)
    \/ \E symbol \in Symbols, fault \in StorageFaults :
           FaultyGetTrackedTicker(symbol, fault)
    \/ \E symbol \in Symbols, fault \in StorageFaults :
           FaultyDeleteTrackedTicker(symbol, fault)

SpecFaults == InitFaults /\ [][NextFaults]_vars

\* C26: the REST layer answers 404 only when the requested symbol is
\* absent from the store; a storage fault or an unreadable record is
\* answered otherwise.
C26_NotFoundOnlyWhenAbsent ==
    resp.iface = "rest" /\ resp.op \in {"get", "delete"} =>
        /\ resp.status = 404 => resp.symbol \notin SymbolsOf(resp.before)
        /\ resp.exc = "ValueError" => resp.symbol \notin SymbolsOf(resp.before)

\* ================================================== statement merger
MaxPeriod == 3
MaxRows == 2

\* Period labels (the dates of the statements' columns upstream), here
\* numbers in their sort order.
Periods == 1..MaxPeriod

Range(seq) == {seq[i] : i \in 1..Len(seq)}

\* A cell holds where its value comes from; NaN is pandas' missing value.
Cell(src, p, c) == << src, p, c >>
NaNCell == Cell("NaN", 0, "")

\* A DataFrame: its row labels in order, its column names in order, and
\* the cell of each label and column.
DataFrame(index, columns, data) ==
    [index |-> index, columns |-> columns, data |-> data]

\* A statement as yfinance gives it, transposed: one row per period.
Statement(src, index, columns) ==
    DataFrame(index, columns,
              [p \in Range(index) |-> [c \in Range(columns) |-> Cell(src, p, c)]])

\* Row labels of a statement: distinct periods in any order.
Indexes == {idx \in SeqsUpTo(Periods, MaxRows) :
               \A i, j \in 1..Len(idx) : i # j => idx[i] # idx[j]}

\* Column names of a statement, the same name being found in several
\* statements.
ColumnLists == {<< "x" >>, << "y" >>, << "x", "y" >>}

RECURSIVE sort_values(_)
sort_values(labels) ==
    IF labels = {} THEN << >>
    ELSE LET least == CHOOSE p \in labels : \A q \in labels : p <= q
         IN  << least >> \o sort_values(labels \ {least})

\* Index.union(other): the labels of both, sorted, except that equal
\* indexes and an empty index give the other operand as it is.
intersection(left, right) == SelectSeq(left, LAMBDA p : p \in Range(right))

union_left_first(left, right) ==
    left \o SelectSeq(right, LAMBDA p : p \notin Range(left))

union(left, right) ==
    IF right = << >> \/ left = right THEN left
    ELSE IF left = << >> THEN right
    ELSE sort_values(Range(left) \cup Range(right))

\* The name a column gets in a join: suffixed when the other frame has a
\* column of the same name.
suffixed_never(c, mine, theirs, suffix) == c

suffixed(c, mine, theirs, suffix) ==
    IF c \in Range(theirs) THEN c \o suffix ELSE c

\* left.join(right, how="outer", lsuffix=..., rsuffix=...): joined on the
\* row labels.
join(left, right, lsuffix, rsuffix) ==
    LET lname(c) == suffixed(c, left.columns, right.columns, lsuffix)
        rname(c) == suffixed(c, right.columns, left.columns, rsuffix)
        lcols == [i \in 1..Len(left.columns) |-> lname(left.columns[i])]
        rcols == [i \in 1..Len(right.columns) |-> rname(right.columns[i])]
        index == union(left.index, right.index)
        side(frame, p, c) ==
            IF p \in Range(frame.index) THEN frame.data[p][c] ELSE NaNCell
    IN  DataFrame(index, lcols \o rcols,
            [p \in Range(index) |->
                [n \in Range(lcols) \cup Range(rcols) |->
                    IF n \in Range(lcols)
                    THEN side(left, p, CHOOSE c \in Range(left.columns) : lname(c) = n)
                    ELSE side(right, p, CHOOSE c \in Range(right.columns) : rname(c) = n)]])

\* df.reset_index(): the rows are labelled by position and the old labels
\* become the first column, named "index".
reset_index(df) ==
    DataFrame([i \in 1..Len(df.index) |-> i - 1], << "index" >> \o df.columns,
              [i \in 0..Len(df.index) - 1 |->
                  [c \in {"index"} \cup Range(df.columns) |->
                      IF c = "index" THEN Cell("label", df.index[i + 1], "")
                      ELSE df.data[df.index[i + 1]][c]]])

\* df.rename(columns={old: new})
rename(df, old, new) ==
    LET name(c) == IF c = old THEN new ELSE c
    IN  DataFrame(df.index, [i \in 1..Len(df.columns) |-> name(df.columns[i])],
                  [p \in Range(df.index) |->
                      [n \in {name(c) : c \in Range(df.columns)} |->
                          df.data[p][CHOOSE c \in Range(df.columns) : name(c) = n]]])

_join_financial_statements(income, balance, cash) ==
    rename(reset_index(join(join(income, balance, "_income", "_balance"),
                            cash, "", "_cashflow")),
           "index", "period")

Extracted(op, income, balance, cash, out) ==
    [op |-> op, income |-> income, balance |-> balance, cash |-> cash, out |-> out]

NoFrame == DataFrame(<< >>, << >>, << >>)

InitMerger ==
    /\ tickers = {}
    /\ sqlite_sequence = 0
    /\ clock = 0
    /\ live = {}
    /\ resp = Response(Request("none", "none", "", << >>), 0, "none", "null",
                       << >>, FALSE, 0)
    /\ conc = Idle
    /\ scorer = Idle
    /\ listing = Idle
    /\ indices = Idle
    /\ \E i \in Indexes, b \in Indexes, c \in Indexes :
           \E ci \in ColumnLists, cb \in ColumnLists, cc \in ColumnLists :
               extraction = Extracted("input", Statement("income", i, ci),
                                      Statement("balance", b, cb),
                                      Statement("cash", c, cc), NoFrame)

MergerJoin ==
    /\ extraction.op = "input"
    /\ extraction' = [extraction EXCEPT !.op = "_join_financial_statements",
           !.out = _join_financial_statements(extraction.income, extraction.balance,
                                              extraction.cash)]
    /\ UNCHANGED << portfolio, conc, scorer, listing, indices >>

NextMerger == MergerJoin

SpecMerger == InitMerger /\ [][NextMerger]_vars

Sources == {"income", "balance", "cash"}

SourceFrame(src) ==
    IF src = "income" THEN extraction.income
    ELSE IF src = "balance" THEN extraction.balance
    ELSE extraction.cash

Merged == extraction.op = "_join_financial_statements"

\* The periods of the merged rows, in row order.
RowPeriods ==
    [i \in 1..Len(extraction.out.index) |->
        extraction.out.data[extraction.out.index[i]]["period"][2]]

\* The cells of one merged row that come from a source's columns.
CellsOf(row, src) == {cell \in Range([i \in 1..Len(extraction.out.columns) |->
                                         row[extraction.out.columns[i]]]) :
                         cell[1] = src}

\* C21: the merged table has exactly one row for each period found in any
\* of the three statements; the row carries its period in the column
\* "period", the source's values in the columns of a source that has the
\* period and null in all columns of a source that lacks it.
C21_OneRowPerPeriodOuterJoin ==
    Merged =>
        LET out == extraction.out
            all == UNION {Range(SourceFrame(src).index) : src \in Sources}
        IN  /\ Len(out.index) = Cardinality(all)
            /\ Range(RowPeriods) = all
            /\ "period" \in Range(out.columns)
            /\ \A pos \in Range(out.index) :
                 LET row == out.data[pos]
                     p == row["period"][2]
                 IN  /\ row["period"] = Cell("label", p, "")
                     /\ \A src \in Sources :
                          LET frame == SourceFrame(src)
                          IN  IF p \in Range(frame.index)
                              THEN {cell \in CellsOf(row, src) : cell[2] = p}
                                     = {Cell(src, p, c) : c \in Range(frame.columns)}
                              ELSE CellsOf(row, src) = {}
                     /\ Cardinality({n \in Range(out.columns) : row[n] = NaNCell})
                          = Cardinality(UNION {
                                {<< src, c >> : c \in Range(SourceFrame(src).columns)} :
                                src \in {t \in Sources : p \notin Range(SourceFrame(t).index)}})

\* Periods {1, 2}, {1, 3} and {2} were merged into three rows.
C21_Witness ==
    /\ Merged
    /\ Range(extraction.income.index) = {1, 2}
    /\ Range(extraction.balance.index) = {1, 3}
    /\ Range(extraction.cash.index) = {2}
    /\ Len(extraction.out.index) = 3
    /\ Range(RowPeriods) = {1, 2, 3}

\* The column of the merged table that holds a source's column.
MergedName(src, c) ==
    LET inc == Range(extraction.income.columns)
        bal == Range(extraction.balance.columns)
        joined == {IF n \in inc \cap bal THEN n \o "_income" ELSE n : n \in inc}
                  \cup {IF n \in inc \cap bal THEN n \o "_balance" ELSE n : n \in bal}
    IN  IF src = "cash" THEN (IF c \in joined THEN c \o "_cashflow" ELSE c)
        ELSE IF c \in inc \cap bal
        THEN c \o (IF src = "income" THEN "_income" ELSE "_balance")
        ELSE c

\* C22: every column of every source is in the merged table exactly once
\* and no two columns have the same name: a name of both the primary
\* statement and the balance sheet gives two columns suffixed _income and
\* _balance, and a cash-flow column whose name is a column of the joined
\* table is suffixed _cashflow, the joined one keeping its name.
C22_ColumnsOnceAndDistinct ==
    Merged =>
        LET out == extraction.out
            cols == UNION {{<< src, c >> : c \in Range(SourceFrame(src).columns)} :
                           src \in Sources}
        IN  /\ Len(out.columns) = 1 + Cardinality(cols)
            /\ \A i, j \in 1..Len(out.columns) :
                   i # j => out.columns[i] # out.columns[j]
            /\ \A sc \in cols :
                 /\ MergedName(sc[1], sc[2]) \in Range(out.columns)
                 /\ \A pos \in Range(out.index) :
                      LET row == out.data[pos]
                          p == row["period"][2]
                      IN  row[MergedName(sc[1], sc[2])] =
                              IF p \in Range(SourceFrame(sc[1]).index)
                              THEN Cell(sc[1], p, sc[2]) ELSE NaNCell

\* All three statements have a column x, the primary one also a column y
\* that the cash flow has too: x_income, x_balance and x, y and y_cashflow.
C22_Witness ==
    /\ Merged
    /\ extraction.income.columns = << "x", "y" >>
    /\ extraction.balance.columns = << "x" >>
    /\ extraction.cash.columns = << "x", "y" >>
    /\ extraction.out.columns =
           << "period", "x_income", "y", "x_balance", "x", "y_cashflow" >>
    /\ extraction.out.index # << >>

Timestamps == {1, 2}
NoneCell == Cell("None", 0, "")
NaTCell == Cell("NaT", 0, "")
CellValues ==
    {NaNCell, NaTCell, NoneCell, Cell("float", 7, ""), Cell("str", 0, "a")}
    \cup {Cell("Timestamp", t, "") : t \in Timestamps}

\* Timestamp.isoformat()
isoformat(val) ==
    Cell("str", 0, IF val[2] = 1 THEN "2024-03-31T00:00:00" ELSE "2024-06-30T00:00:00")

\* pd.isna(val)
isna(val) == val[1] \in {"NaN", "NaT", "None"}

\* isinstance(val, pd.Timestamp); NaT is no Timestamp.
isinstance_Timestamp(val) == val[1] = "Timestamp"

\* val.isoformat() if isinstance(val, pd.Timestamp) else None if
\* pd.isna(val) else val
json_safe_keep_missing(val) ==
    IF isinstance_Timestamp(val) THEN isoformat(val) ELSE val

json_safe(val) ==
    IF isinstance_Timestamp(val) THEN isoformat(val)
    ELSE IF isna(val) THEN NoneCell
    ELSE val

\* df.to_dict(orient="records"): one mapping per row, in row order.
to_dict_records_dropna(df) ==
    LET kept == SelectSeq(df.index,
                    LAMBDA p : \A c \in Range(df.columns) : ~isna(df.data[p][c]))
    IN  [i \in 1..Len(kept) |-> df.data[kept[i]]]

to_dict_records(df) == [i \in 1..Len(df.index) |-> df.data[df.index[i]]]

_df_to_json_safe(df) ==
    LET records == to_dict_records(df)
    IN  [i \in 1..Len(records) |->
            [col \in DOMAIN records[i] |-> json_safe(records[i][col])]]

Normalised(op, df, before, out) ==
    [op |-> op, df |-> df, before |-> before, out |-> out]

InitNormalizer ==
    /\ tickers = {}
    /\ sqlite_sequence = 0
    /\ clock = 0
    /\ live = {}
    /\ resp = Response(Request("none", "none", "", << >>), 0, "none", "null",
                       << >>, FALSE, 0)
    /\ conc = Idle
    /\ scorer = Idle
    /\ listing = Idle
    /\ indices = Idle
    \* a table of up to MaxRows rows, labelled by position
    /\ \E n \in 0..MaxRows, columns \in {<< "X" >>, << "X", "Y" >>} :
           \E data \in [0..n - 1 -> [Range(columns) -> CellValues]] :
               LET df == DataFrame([i \in 1..n |-> i - 1], columns, data)
               IN  extraction = Normalised("input", df, df, << >>)

\* The call builds new mappings and leaves df as it is.
NormalizerDfToJsonSafe ==
    /\ extraction.op = "input"
    /\ extraction' = [extraction EXCEPT !.op = "_df_to_json_safe",
                                        !.out = _df_to_json_safe(extraction.df)]
    /\ UNCHANGED << portfolio, conc, scorer, listing, indices >>

NextNormalizer == NormalizerDfToJsonSafe

SpecNormalizer == InitNormalizer /\ [][NextNormalizer]_vars

JsonSafeDone == extraction.op = "_df_to_json_safe"

\* C24: every cell is mapped by kind: a missing-value marker becomes null,
\* a timestamp its ISO-8601 string, any other value is returned as it is.
C24_CellsMappedByKind ==
    JsonSafeDone =>
        \A i \in 1..Len(extraction.before.index) :
            \A col \in Range(extraction.before.columns) :
                LET val == extraction.before.data[extraction.before.index[i]][col]
                    got == extraction.out[i][col]
                IN  /\ val \in {NaNCell, NaTCell, NoneCell} => got = NoneCell
                    /\ val[1] = "Timestamp" =>
                           /\ got[1] = "str"
                           /\ got[3] \in {"2024-03-31T00:00:00", "2024-06-30T00:00:00"}
                           /\ (got[3] = "2024-03-31T00:00:00") = (val[2] = 1)
                    /\ val[1] \in {"float", "str"} => got = val

\* A row with a missing marker in X and a timestamp in Y gave
\* {X: null, Y: "<ISO-8601 string>"}.
C24_Witness ==
    /\ JsonSafeDone
    /\ Len(extraction.before.index) = 1
    /\ extraction.before.columns = << "X", "Y" >>
    /\ extraction.before.data[0]["X"] = NaNCell
    /\ extraction.before.data[0]["Y"] = Cell("Timestamp", 1, "")
    /\ extraction.out = << [X |-> NoneCell, Y |-> Cell("str", 0, "2024-03-31T00:00:00")] >>

\* C25: the output has one mapping per input row, in the rows' order and
\* with exactly the row's column names; an empty table gives an empty
\* sequence; the input table is as it was.
C25_ShapePreservedInputUntouched ==
    JsonSafeDone =>
        /\ Len(extraction.out) = Len(extraction.before.index)
        /\ \A i \in 1..Len(extraction.out) :
            /\ DOMAIN extraction.out[i] = Range(extraction.before.columns)
            /\ \A col \in Range(extraction.before.columns) :
                   extraction.out[i][col] =
                       json_safe(extraction.before.data[extraction.before.index[i]][col])
        /\ extraction.before.index = << >> => extraction.out = << >>
        /\ extraction.df = extraction.before

\* Two rows, the first with a missing value, came out as two mappings in
\* the same order.
C25_Witness ==
    /\ JsonSafeDone
    /\ Len(extraction.before.index) = 2
    /\ extraction.before.columns = << "X" >>
    /\ extraction.before.data[0]["X"] = NaNCell
    /\ extraction.before.data[1]["X"] = Cell("float", 7, "")
    /\ extraction.out = << [X |-> NoneCell], [X |-> Cell("float", 7, "")] >>

\* ==================================================== symbol validation
\* The upstream provider: for each symbol the keys of the info mapping that
\* yf.Ticker(symbol).info returns. An unknown symbol has an empty mapping
\* or only the key trailingPegRatio.
UpstreamSymbols == {"AAPL", "INVALIDTICKER999"}
InfoKeys == {"trailingPegRatio", "symbol"}
Upstreams == [UpstreamSymbols -> SUBSET InfoKeys]

Found(info) == [exc |-> "none", message |-> "", info |-> info]
NotFound(message) == [exc |-> "ValueError", message |-> message, info |-> {}]

\* _getTicker: result = yf.Ticker(symbol); len(result.info) <= 1 raises.
_getTicker_empty_only(upstream, symbol) ==
    IF Cardinality(upstream[symbol]) < 1 THEN NotFound("Symbol not found")
    ELSE Found(upstream[symbol])

_getTicker(upstream, symbol) ==
    IF Cardinality(upstream[symbol]) <= 1 THEN NotFound("Symbol not found")
    ELSE Found(upstream[symbol])

\* The attributes of the upstream ticker object each operation reads once
\* _getTicker has returned it, in the order of the reads.
UpstreamReads ==
    [extract_ticker_info |-> << "info" >>,
     extract_quarterly_financials |->
         << "quarterly_financials", "quarterly_balance_sheet", "quarterly_cash_flow" >>,
     extract_yearly_financials |-> << "financials", "balance_sheet", "cashflow" >>,
     extract_market_data |-> << "history" >>,
     extract_corporate_actions |-> << "actions" >>,
     extract_recommendations |-> << "recommendations_summary" >>,
     extract_revisions |-> << "upgrades_downgrades" >>,
     extract_price_targets |-> << "analyst_price_targets" >>,
     extract_calendar |-> << "calendar" >>,
     extract_news |-> << "news" >>]

\* A symbol-taking operation of StockExtractionService: _getTicker first
\* (which reads info), then the operation's own reads.
extract(op, upstream, symbol) ==
    LET stock == _getTicker(upstream, symbol)
    IN  IF stock.exc # "none"
        THEN [exc |-> stock.exc, message |-> stock.message, reads |-> << "info" >>]
        ELSE [exc |-> "none", message |-> "", reads |-> << "info" >> \o UpstreamReads[op]]

Validated(op, upstream, symbol, reads, status, detail) ==
    [op |-> op, upstream |-> upstream, symbol |-> symbol, reads |-> reads,
     status |-> status, detail |-> detail]

InitValidation ==
    /\ tickers = {}
    /\ sqlite_sequence = 0
    /\ clock = 0
    /\ live = {}
    /\ resp = Response(Request("none", "none", "", << >>), 0, "none", "null",
                       << >>, FALSE, 0)
    /\ conc = Idle
    /\ scorer = Idle
    /\ listing = Idle
    /\ indices = Idle
    /\ extraction \in {Validated("input", upstream, "", << >>, 0, "") :
                          upstream \in Upstreams}

\* A handler of StockExtractionRouter: the service call, with ValueError
\* turned into HTTP 404 carrying str(e).
RestExtract(op, symbol) ==
    /\ extraction.op = "input"
    /\ LET done == extract(op, extraction.upstream, symbol)
       IN  extraction' =
               IF Catches("ValueError", done.exc)
               THEN Validated(op, extraction.upstream, symbol, done.reads,
                              404, done.message)
               ELSE Validated(op, extraction.upstream, symbol, done.reads, 200, "")
    /\ UNCHANGED << portfolio, conc, scorer, listing, indices >>

\* The ten symbol-taking routes of StockExtractionRouter.
NextValidation ==
    \/ \E symbol \in UpstreamSymbols : RestExtract("extract_ticker_info", symbol)
    \/ \E symbol \in UpstreamSymbols : RestExtract("extract_quarterly_financials", symbol)
    \/ \E symbol \in UpstreamSymbols : RestExtract("extract_yearly_financials", symbol)
    \/ \E symbol \in UpstreamSymbols : RestExtract("extract_market_data", symbol)
    \/ \E symbol \in UpstreamSymbols : RestExtract("extract_corporate_actions", symbol)
    \/ \E symbol \in UpstreamSymbols : RestExtract("extract_recommendations", symbol)
    \/ \E symbol \in UpstreamSymbols : RestExtract("extract_revisions", symbol)
    \/ \E symbol \in UpstreamSymbols : RestExtract("extract_price_targets", symbol)
    \/ \E symbol \in UpstreamSymbols : RestExtract("extract_calendar", symbol)
    \/ \E symbol \in UpstreamSymbols : RestExtract("extract_news", symbol)

SpecValidation == InitValidation /\ [][NextValidation]_vars

\* C27: every symbol-taking extraction operation reads the symbol's info
\* (the validation) before anything else upstream, and for a symbol whose
\* info has at most one entry reads nothing more and answers HTTP 404 with
\* detail "Symbol not found".
C27_SymbolValidatedFirst ==
    extraction.op \in DOMAIN UpstreamReads =>
        /\ extraction.reads # << >>
        /\ extraction.reads[1] = "info"
        /\ Cardinality(extraction.upstream[extraction.symbol]) <= 1 =>
               /\ extraction.reads = << "info" >>
               /\ extraction.status = 404
               /\ extraction.detail = "Symbol not found"

\* Quarterly financials were asked for a symbol whose info has exactly one
\* entry, and the answer was 404 after the info read alone.
C27_Witness ==
    /\ extraction.op = "extract_quarterly_financials"
    /\ Cardinality(extraction.upstream[extraction.symbol]) = 1
    /\ extraction.status = 404
    /\ extraction.reads = << "info" >>

\* ========================================================= index listing
MaxTables == 2

\* IndexListingService.indices: the page and the suffix of each index.
IndexListingService_indices ==
    [SP500 |-> [url |-> "https://en.wikipedia.org/wiki/List_of_S%26P_500_companies",
                suffix |-> None],
     IBEX35 |-> [url |-> "https://en.wikipedia.org/wiki/IBEX_35", suffix |-> None],
     FTSE100 |-> [url |-> "https://en.wikipedia.org/wiki/FTSE_100_Index",
                  suffix |-> Some("L")],
     DAX |-> [url |-> "https://en.wikipedia.org/wiki/DAX", suffix |-> None]]

IndexNames == DOMAIN IndexListingService_indices \cup {"INVALID"}

possible_columns_ticker_first == << "Ticker", "Symbol", "EPIC", "Code", "ISIN" >>

possible_columns == << "Symbol", "Ticker", "EPIC", "Code", "ISIN" >>

\* A cell of a page's table: a string, or NaN where the page has none.
StrCell(text) == << "str", text >>
NaNText == << "float", "nan" >>

\* The columns a table can have: all of one length.
ColumnContents ==
    {<< >>,
     << StrCell(" SAN ") >>,
     << StrCell("SAN"), StrCell("BBVA ") >>,
     << StrCell("SAN"), NaNText >>}

TableColumns == {"Company", "Ticker", "Symbol"}

PageTables ==
    UNION {{df \in [columns -> ColumnContents] :
               \A c, d \in columns : Len(df[c]) = Len(df[d])} :
           columns \in SUBSET TableColumns \ {{}}}

\* What the page of an index answers: the HTTP status and its tables.
Page(status_code, tables) == [status_code |-> status_code, tables |-> tables]
Pages ==
    {Page(200, tables) : tables \in SeqsUpTo(PageTables, MaxTables)}
    \cup {Page(503, << >>)}

\* str.strip()
strip(text) ==
    IF text = " SAN " THEN "SAN"
    ELSE IF text = "BBVA " THEN "BBVA"
    ELSE text

\* for col in possible_columns: if col in df.columns: symbols = df[col].tolist()
RECURSIVE scan_columns(_, _)
scan_columns(df, k) ==
    IF k > Len(possible_columns) THEN << >>
    ELSE IF possible_columns[k] \in DOMAIN df THEN df[possible_columns[k]]
    ELSE scan_columns(df, k + 1)

\* for df in tables: ...; if symbols: break
RECURSIVE scan_tables(_, _)
scan_tables(tables, i) ==
    IF i > Len(tables) THEN << >>
    ELSE LET symbols == scan_columns(tables[i], 1)
         IN  IF symbols # << >> THEN symbols ELSE scan_tables(tables, i + 1)

Listing(exc, message, value, fetched) ==
    [exc |-> exc, message |-> message, value |-> value, fetched |-> fetched]

\* IndexListingService.get_index_listing against a page.
get_index_listing(index_name, page) ==
    IF index_name \notin DOMAIN IndexListingService_indices
    THEN Listing("ValueError", "Index " \o index_name \o " not supported", << >>, << >>)
    ELSE
        LET url == IndexListingService_indices[index_name].url
            suffix == IndexListingService_indices[index_name].suffix
            symbols == scan_tables(page.tables, 1)
        IN  IF page.status_code # 200
            THEN Listing("HTTPError", "", << >>, << url >>)
            ELSE IF Len(page.tables) = 0
            THEN Listing("ValueError", "No tables found", << >>, << url >>)
            ELSE IF symbols = << >>
            THEN Listing("ValueError",
                         "No ticker column found in any table on the page",
                         << >>, << url >>)
            ELSE IF \E i \in 1..Len(symbols) : symbols[i][1] # "str"
            THEN Listing("AttributeError", "", << >>, << url >>)
            ELSE Listing("none", "",
                         [i \in 1..Len(symbols) |->
                             IF suffix # None
                             THEN strip(symbols[i][2]) \o "." \o suffix[1]
                             ELSE strip(symbols[i][2])],
                         << url >>)

Indexed(op, channel, index_name, page, done, status) ==
    [op |-> op, channel |-> channel, index_name |-> index_name, page |-> page,
     done |-> done, status |-> status]

InitIndices ==
    /\ tickers = {}
    /\ sqlite_sequence = 0
    /\ clock = 0
    /\ live = {}
    /\ resp = Response(Request("none", "none", "", << >>), 0, "none", "null",
                       << >>, FALSE, 0)
    /\ conc = Idle
    /\ scorer = Idle
    /\ listing = Idle
    /\ extraction = Idle
    /\ indices \in {Indexed("input", "", "", page, Listing("none", "", << >>, << >>), 0) :
                       page \in Pages}

\* GET /indices/{index_name}
RestGetIndexListing(index_name) ==
    /\ indices.op = "input"
    /\ LET done == get_index_listing(index_name, indices.page)
       IN  indices' = Indexed("get_index_listing", "REST", index_name, indices.page,
                              done,
                              IF Catches("ValueError", done.exc) THEN 404
                              ELSE IF Catches("Exception", done.exc) THEN 500
                              ELSE 200)
    /\ UNCHANGED << portfolio, conc, scorer, listing, extraction >>

\* The MCP tool get_index_listing: the service's exception is the tool's
\* error.
McpGetIndexListing(index_name) ==
    /\ indices.op = "input"
    /\ indices' = Indexed("get_index_listing", "MCP", index_name, indices.page,
                          get_index_listing(index_name, indices.page), 0)
    /\ UNCHANGED << portfolio, conc, scorer, listing, extraction >>

NextIndices ==
    \/ \E index_name \in IndexNames : RestGetIndexListing(index_name)
    \/ \E index_name \in IndexNames : McpGetIndexListing(index_name)

SpecIndices == InitIndices /\ [][NextIndices]_vars

IndexListingDone == indices.op = "get_index_listing"

\* The column the listing is taken from: table i is the first table of the
\* page that has a ticker column with rows, and col is the first of Symbol,
\* Ticker, EPIC, Code, ISIN that table i has.
IsFirstTickerColumn(tables, i, col) ==
    LET names == {"Symbol", "Ticker", "EPIC", "Code", "ISIN"}
        before(c) == CASE c = "Symbol" -> {}
                       [] c = "Ticker" -> {"Symbol"}
                       [] c = "EPIC" -> {"Symbol", "Ticker"}
                       [] c = "Code" -> {"Symbol", "Ticker", "EPIC"}
                       [] c = "ISIN" -> {"Symbol", "Ticker", "EPIC", "Code"}
        has_rows(df) == \E c \in names \cap DOMAIN df : Len(df[c]) > 0
    IN  /\ i \in 1..Len(tables)
        /\ has_rows(tables[i])
        /\ \A j \in 1..(i - 1) : ~has_rows(tables[j])
        /\ col \in names \cap DOMAIN tables[i]
        /\ before(col) \cap DOMAIN tables[i] = {}

\* C28: an unsupported index name fails with ValueError before any page is
\* fetched, and REST answers 404; for a supported index the result is the
\* first non-empty ticker column found (tables in page order, names in the
\* order Symbol, Ticker, EPIC, Code, ISIN), each symbol stripped and, for
\* FTSE100 only, suffixed with ".L".
C28_IndexListing ==
    IndexListingDone =>
        /\ indices.index_name \notin {"SP500", "IBEX35", "FTSE100", "DAX"} =>
               /\ indices.done.exc = "ValueError"
               /\ indices.done.fetched = << >>
               /\ indices.channel = "REST" => indices.status = 404
        /\ indices.index_name \in {"SP500", "IBEX35", "FTSE100", "DAX"} =>
               \A i \in 1..Len(indices.page.tables) : \A col \in TableColumns :
                   LET column == indices.page.tables[i][col]
                   IN  /\ IsFirstTickerColumn(indices.page.tables, i, col)
                       /\ \A k \in 1..Len(column) : column[k][1] = "str"
                       => /\ indices.done.exc = "none"
                          /\ Len(indices.done.value) = Len(column)
                          /\ \A k \in 1..Len(column) :
                                 indices.done.value[k] =
                                     CASE column[k][2] = " SAN " ->
                                              IF indices.index_name = "FTSE100"
                                              THEN "SAN.L" ELSE "SAN"
                                       [] column[k][2] = "SAN" ->
                                              IF indices.index_name = "FTSE100"
                                              THEN "SAN.L" ELSE "SAN"
                                       [] column[k][2] = "BBVA " ->
                                              IF indices.index_name = "FTSE100"
                                              THEN "BBVA.L" ELSE "BBVA"

\* FTSE100 was listed from a page whose first table has no rows and whose
\* second table has both a Ticker and a Symbol column: the Symbol column
\* was taken, stripped and suffixed.
C28_Witness ==
    /\ IndexListingDone
    /\ indices.index_name = "FTSE100"
    /\ Len(indices.page.tables) = 2
    /\ DOMAIN indices.page.tables[1] = {"Symbol"}
    /\ indices.page.tables[1]["Symbol"] = << >>
    /\ DOMAIN indices.page.tables[2] = {"Ticker", "Symbol"}
    /\ indices.page.tables[2]["Ticker"] = << StrCell(" SAN ") >>
    /\ indices.page.tables[2]["Symbol"] = << StrCell(" SAN ") >>
    /\ indices.done.value = << "SAN.L" >>

====
